---- MODULE Spec2Model ----
(***************************************************************************)
(* DevEvent persistence layer: the connection cache (lib/mongodb.ts), the  *)
(* GET /api/events/[slug] handler, and the Event and Booking pre-save      *)
(* hooks.  Strings are sequences of one-character strings.                 *)
(***************************************************************************)
EXTENDS Integers, Sequences, FiniteSets, TLC

\* ------------------------------------------------------------------ bounds
\* number of logical callers of connectDB() / GET; each issues one call
NumCallers == 4
\* how many of the callers may be GET requests
MaxGets == 1
\* documents of each model a request handler holds in memory at a time
NumDocs == 2
\* events the store holds at most
MaxEvents == 2
\* bookings the store holds at most
MaxBookings == 1
\* characters in the longest title handed to the slug derivation
MaxTitleLen == 3

VARIABLES
    conn,        \* cached.conn: NoConn or Mongoose
    promise,     \* cached.promise: 0 (null) or the attempt it belongs to
    attempts,    \* number of mongoose.connect() calls made so far
    outcome,     \* outcome[k]: settlement of mongoose.connect() of attempt k
    pstate,      \* pstate[k]: state of the promise stored in cached.promise
    reactions,   \* reactions[k]: callers suspended on a pending pstate[k]
    queue,       \* the microtask (job) queue of the event loop, FIFO
    pc,          \* pc[c]: position of caller c
    req,         \* req[c]: what caller c runs (connectDB directly, or GET slug)
    joined,      \* joined[c]: the attempt whose promise c awaits (0: none)
    called,      \* called[c]: c has invoked connectDB()
    callSeq,     \* callSeq[c]: position of c's connectDB() call among all calls
    nCalls,      \* number of connectDB() invocations so far
    result,      \* result[c]: what connectDB() gave c: NoResult, Mongoose, Failed
    errmsg,      \* errmsg[c]: message of the error connectDB() threw to c
    response,    \* response[c]: GET's response [status, message]
    lookups,     \* lookups[c]: Event.findOne calls made for c
    events,      \* the events collection: sequence of stored documents
    bookings,    \* the bookings collection: sequence of stored documents
    docs,        \* docs[d]: an Event document held in memory by a request
    bdocs,       \* bdocs[d]: a Booking document held in memory by a request
    tIn,         \* a raw time handed to the time branch of the Event hook
    tOut,        \* the time that branch wrote (empty: nothing written)
    tState,      \* "input", "stored" or "rejected"
    sTitle,      \* a raw title handed to the slug derivation and to a creation
    sSlug,       \* the slug derived from sTitle
    sAgain,      \* the slug derived from sSlug
    sStored,     \* the slug of the event created with sTitle
    sFetch       \* what GET's slug checks answer to sStored

connVars == <<conn, promise, attempts, outcome, pstate, reactions, queue, pc, req,
              joined, called, callSeq, nCalls, result, errmsg, response, lookups>>

storeVars == <<events, bookings, docs, bdocs>>

timeVars == <<tIn, tOut, tState>>

slugVars == <<sTitle, sSlug, sAgain, sStored, sFetch>>

vars == <<connVars, storeVars, timeVars, slugVars>>

\* ------------------------------------------------------------ characters
Lower == {"a","b","c","d","e","f","g","h","i","j","k","l","m",
          "n","o","p","q","r","s","t","u","v","w","x","y","z"}
Upper == {"A","B","C","D","E","F","G","H","I","J","K","L","M",
          "N","O","P","Q","R","S","T","U","V","W","X","Y","Z"}
Digits == {"0","1","2","3","4","5","6","7","8","9"}
LowerSeq == <<"a","b","c","d","e","f","g","h","i","j","k","l","m",
              "n","o","p","q","r","s","t","u","v","w","x","y","z">>
UpperSeq == <<"A","B","C","D","E","F","G","H","I","J","K","L","M",
              "N","O","P","Q","R","S","T","U","V","W","X","Y","Z">>

\* \s of a JavaScript regular expression (the members the model uses)
IsSpace(ch) == ch \in {" ", "\t", "\n"}

\* \w of a JavaScript regular expression: [A-Za-z0-9_]
IsWord(ch) == ch \in Lower \cup Upper \cup Digits \cup {"_"}

IndexIn(ch, seq) == CHOOSE i \in 1..Len(seq) : seq[i] = ch

LowerChar(ch) == IF ch \in Upper THEN LowerSeq[IndexIn(ch, UpperSeq)] ELSE ch
UpperChar(ch) == IF ch \in Lower THEN UpperSeq[IndexIn(ch, LowerSeq)] ELSE ch

\* String.prototype.toLowerCase / toUpperCase
ToLowerCase(s) == [i \in 1..Len(s) |-> LowerChar(s[i])]
ToUpperCase(s) == [i \in 1..Len(s) |-> UpperChar(s[i])]

\* String.prototype.trim
RECURSIVE TrimStart(_)
TrimStart(s) == IF Len(s) > 0 /\ IsSpace(Head(s)) THEN TrimStart(Tail(s)) ELSE s
RECURSIVE TrimEnd(_)
TrimEnd(s) ==
    IF Len(s) > 0 /\ IsSpace(s[Len(s)]) THEN TrimEnd(SubSeq(s, 1, Len(s) - 1)) ELSE s
Trim(s) == TrimEnd(TrimStart(s))

\* String.prototype.includes for a message held as a sequence of words
Includes(msg, word) == \E i \in 1..Len(msg) : msg[i] = word

\* --------------------------------------------------- GET /api/events/[slug]
\* a format check that lets every slug through
AcceptsAnySlug(slug) == TRUE

\* /^[a-z0-9]+(?:-[a-z0-9]+)*$/ : non-empty, only [a-z0-9-], no hyphen first
\* or last, no two hyphens in a row
SlugPatternTest(slug) ==
    /\ Len(slug) > 0
    /\ \A i \in 1..Len(slug) : slug[i] \in Lower \cup Digits \cup {"-"}
    /\ slug[1] # "-"
    /\ slug[Len(slug)] # "-"
    /\ \A i \in 1..(Len(slug) - 1) : ~(slug[i] = "-" /\ slug[i + 1] = "-")

\* Event.findOne({ slug })
FindOneBySlug(evs, slug) == {i \in 1..Len(evs) : evs[i].slug = slug}

NoResponse == [status |-> "none", message |-> "none"]
SlugRequired == [status |-> "400", message |-> "Slug parameter is required"]
InvalidSlugFormat == [status |-> "400", message |-> "Invalid slug format"]
NotFound == [status |-> "404", message |-> "not found"]
Fetched == [status |-> "200", message |-> "Event fetched successfully"]
ServiceUnavailable == [status |-> "503", message |-> "Database configuration error"]
FailedToFetch == [status |-> "500", message |-> "Failed to fetch event"]

\* the catch block of GET
ErrorResponse(msg) ==
    IF Includes(msg, "MONGODB_URI") THEN ServiceUnavailable ELSE FailedToFetch

\* -------------------------------------------------------------- connectDB
NoConn == "null"
Mongoose == "mongoose"
NoResult == "none"
Failed == "error"

Callers == 1..NumCallers
Attempts == 1..NumCallers

\* errors mongoose.connect() rejects with: store unreachable, authentication
ConnectErrors == {<<"connect", "ECONNREFUSED">>, <<"Authentication", "failed">>}
Fulfilled == <<"ok">>
Pending == <<"pending">>

DirectCall == [kind |-> "connectDB", slug |-> <<>>]
GetRequest(slug) == [kind |-> "GET", slug |-> slug]
NoRequest == [kind |-> "none", slug |-> <<>>]

\* slugs the GET handler is asked for
RequestSlugs ==
    { <<"a">>,                                   \* a stored event
      <<"a", "-", "b">>,                         \* well-formed, not stored
      <<"I","n","v","a","l","i","d"," ","S","l","u","g","!">>,
      <<"a", "_", "b">>,
      <<>> }

Job(kind, c, k) == [kind |-> kind, c |-> c, k |-> k]

\* a connectDB() that never takes the cached handle
NeverUsesCachedConn(cachedConn) == FALSE

\* if (cached.conn)
HasCachedConn(cachedConn) == cachedConn # NoConn

\* a connectDB() that starts an attempt on every call
AlwaysStartsAttempt(cachedPromise) == TRUE

\* if (!cached.promise)
NoCachedPromise(cachedPromise) == cachedPromise = 0

\* the promise connectDB() returned to c settles with res: a direct caller is
\* done, GET's continuation after `await connectDB()` is queued
Settled(c, res, msg, q) ==
    /\ result' = [result EXCEPT ![c] = res]
    /\ errmsg' = [errmsg EXCEPT ![c] = msg]
    /\ IF req[c].kind = "GET"
       THEN /\ queue' = Append(q, Job("getcont", c, 0))
            /\ pc' = [pc EXCEPT ![c] = "responding"]
       ELSE /\ queue' = q
            /\ pc' = [pc EXCEPT ![c] = "done"]

\* connectDB() up to its first suspension, run by caller c; q is the job queue
\* once the running job is removed
ConnectDB(c, q) ==
    /\ called' = [called EXCEPT ![c] = TRUE]
    /\ nCalls' = nCalls + 1
    /\ callSeq' = [callSeq EXCEPT ![c] = nCalls + 1]
    /\ IF HasCachedConn(conn)
       THEN /\ Settled(c, conn, <<>>, q)
            /\ UNCHANGED <<conn, promise, attempts, outcome, pstate, reactions, joined>>
       ELSE LET fresh == NoCachedPromise(promise)
                p == IF fresh THEN attempts + 1 ELSE promise
            IN  /\ attempts' = IF fresh THEN attempts + 1 ELSE attempts
                /\ promise' = p
                /\ joined' = [joined EXCEPT ![c] = p]
                /\ pc' = [pc EXCEPT ![c] = "awaiting"]
                /\ IF fresh \/ pstate[p] = Pending
                   THEN /\ reactions' = [reactions EXCEPT ![p] = Append(@, c)]
                        /\ queue' = q
                   ELSE /\ reactions' = reactions
                        /\ queue' = Append(q, Job("resume", c, p))
                /\ UNCHANGED <<conn, outcome, pstate, result, errmsg>>

\* A job calling connectDB() is put on the job queue.  Callers are
\* interchangeable, so they are taken in index order.
ScheduleConnect(c) ==
    /\ pc[c] = "idle"
    /\ \A d \in Callers : d < c => pc[d] # "idle"
    /\ req' = [req EXCEPT ![c] = DirectCall]
    /\ pc' = [pc EXCEPT ![c] = "queued"]
    /\ queue' = Append(queue, Job("call", c, 0))
    /\ UNCHANGED <<conn, promise, attempts, outcome, pstate, reactions, joined,
                   called, callSeq, nCalls, result, errmsg, response, lookups, storeVars, timeVars, slugVars>>

\* a GET request arrives; its body after `await context.params` is queued
ScheduleGet(c, slug) ==
    /\ pc[c] = "idle"
    /\ \A d \in Callers : d < c => pc[d] # "idle"
    /\ Cardinality({d \in Callers : req[d].kind = "GET"}) < MaxGets
    /\ req' = [req EXCEPT ![c] = GetRequest(slug)]
    /\ pc' = [pc EXCEPT ![c] = "queued"]
    /\ queue' = Append(queue, Job("get", c, 0))
    /\ UNCHANGED <<conn, promise, attempts, outcome, pstate, reactions, joined,
                   called, callSeq, nCalls, result, errmsg, response, lookups, storeVars, timeVars, slugVars>>

\* the head job is a direct connectDB() call
RunConnect ==
    /\ queue # <<>>
    /\ Head(queue).kind = "call"
    /\ ConnectDB(Head(queue).c, Tail(queue))
    /\ UNCHANGED <<req, response, lookups, storeVars, timeVars, slugVars>>

\* the head job is GET's body: validate the slug, then connectDB()
RunGet ==
    /\ queue # <<>>
    /\ Head(queue).kind = "get"
    /\ LET c == Head(queue).c
           slug == req[c].slug
       IN  IF slug = <<>> \/ ~SlugPatternTest(slug)
           THEN /\ response' = [response EXCEPT ![c] =
                        IF slug = <<>> THEN SlugRequired ELSE InvalidSlugFormat]
                /\ pc' = [pc EXCEPT ![c] = "done"]
                /\ queue' = Tail(queue)
                /\ UNCHANGED <<conn, promise, attempts, outcome, pstate, reactions,
                               joined, called, callSeq, nCalls, result, errmsg>>
           ELSE /\ ConnectDB(c, Tail(queue))
                /\ UNCHANGED response
    /\ UNCHANGED <<req, lookups, storeVars, timeVars, slugVars>>

\* mongoose.connect() of attempt k settles; the .then() reaction is queued
SettleConnect(k, o) ==
    /\ k \in 1..attempts
    /\ outcome[k] = Pending
    /\ outcome' = [outcome EXCEPT ![k] = o]
    /\ queue' = Append(queue, Job("then", 0, k))
    /\ UNCHANGED <<conn, promise, attempts, pstate, reactions, pc, req, joined,
                   called, callSeq, nCalls, result, errmsg, response, lookups, storeVars, timeVars, slugVars>>

ConnectSucceeds(k) == SettleConnect(k, Fulfilled)
ConnectFails(k) == \E e \in ConnectErrors : SettleConnect(k, e)

RECURSIVE ResumeJobs(_, _)
ResumeJobs(cs, k) ==
    IF cs = <<>> THEN <<>> ELSE <<Job("resume", Head(cs), k)>> \o ResumeJobs(Tail(cs), k)

\* the .then() reaction of attempt k runs: the promise in cached.promise
\* settles and the continuations of its waiters are queued in order
RunThen ==
    /\ queue # <<>>
    /\ Head(queue).kind = "then"
    /\ LET k == Head(queue).k
       IN  /\ pstate' = [pstate EXCEPT ![k] = outcome[k]]
           /\ queue' = Tail(queue) \o ResumeJobs(reactions[k], k)
           /\ reactions' = [reactions EXCEPT ![k] = <<>>]
    /\ UNCHANGED <<conn, promise, attempts, outcome, pc, req, joined, called,
                   callSeq, nCalls, result, errmsg, response, lookups, storeVars, timeVars, slugVars>>

\* caller c resumes after `await cached.promise`
RunResume ==
    /\ queue # <<>>
    /\ Head(queue).kind = "resume"
    /\ LET c == Head(queue).c
           k == Head(queue).k
       IN  IF pstate[k] = Fulfilled
           THEN /\ conn' = Mongoose
                /\ promise' = promise
                /\ Settled(c, Mongoose, <<>>, Tail(queue))
           ELSE /\ promise' = 0
                /\ conn' = conn
                /\ Settled(c, Failed, pstate[k], Tail(queue))
    /\ UNCHANGED <<attempts, outcome, pstate, reactions, req, joined, called,
                   callSeq, nCalls, response, lookups, storeVars, timeVars, slugVars>>

\* GET resumes after `await connectDB()`: query and respond, or the catch block
RunGetCont ==
    /\ queue # <<>>
    /\ Head(queue).kind = "getcont"
    /\ LET c == Head(queue).c
       IN  /\ IF result[c] = Failed
              THEN /\ response' = [response EXCEPT ![c] = ErrorResponse(errmsg[c])]
                   /\ lookups' = lookups
              ELSE /\ lookups' = [lookups EXCEPT ![c] = @ + 1]
                   /\ response' = [response EXCEPT ![c] =
                          IF FindOneBySlug(events, req[c].slug) = {}
                          THEN NotFound ELSE Fetched]
           /\ pc' = [pc EXCEPT ![c] = "done"]
    /\ queue' = Tail(queue)
    /\ UNCHANGED <<conn, promise, attempts, outcome, pstate, reactions, req, joined,
                   called, callSeq, nCalls, result, errmsg, storeVars, timeVars, slugVars>>

\* ------------------------------------------------- Event schema and hook
\* characters that survive .replace(/[^\w\s-]/g, "")
KeptInSlug(ch) == IsWord(ch) \/ IsSpace(ch) \/ ch = "-"

RemoveSpecial(s) == SelectSeq(s, KeptInSlug)

\* .replace(/\s+/g, "-")
RECURSIVE SpacesToHyphen(_)
SpacesToHyphen(s) ==
    IF s = <<>> THEN <<>>
    ELSE IF IsSpace(Head(s)) THEN <<"-">> \o SpacesToHyphen(TrimStart(Tail(s)))
    ELSE <<Head(s)>> \o SpacesToHyphen(Tail(s))

\* a hook without the third replace: hyphen runs stay as they are
KeepsHyphenRuns(s) == s

\* .replace(/-+/g, "-")
RECURSIVE CollapseHyphens(_)
CollapseHyphens(s) ==
    IF s = <<>> THEN <<>>
    ELSE IF Head(s) = "-" /\ Len(s) > 1 /\ s[2] = "-" THEN CollapseHyphens(Tail(s))
    ELSE <<Head(s)>> \o CollapseHyphens(Tail(s))

\* .replace(/^-|-$/g, "")
StripEdgeHyphens(s) ==
    LET a == IF s # <<>> /\ Head(s) = "-" THEN Tail(s) ELSE s
    IN  IF a # <<>> /\ a[Len(a)] = "-" THEN SubSeq(a, 1, Len(a) - 1) ELSE a

\* the slug expression of the pre-save hook
DeriveSlug(title) ==
    StripEdgeHyphens(CollapseHyphens(SpacesToHyphen(RemoveSpecial(Trim(ToLowerCase(title))))))

\* schema setters: title { trim }, slug { lowercase, trim }
TitleSetter(raw) == Trim(raw)
SlugSetter(raw) == Trim(ToLowerCase(raw))

\* /^(0?[1-9]|1[0-2]):[0-5][0-9]\s?(AM|PM)$/i
TimeRegexTest(s) ==
    \E h \in {1, 2} : \E g \in {0, 1} :
        /\ Len(s) = h + 3 + g + 2
        /\ \/ h = 1 /\ s[1] \in Digits \ {"0"}
           \/ h = 2 /\ s[1] = "0" /\ s[2] \in Digits \ {"0"}
           \/ h = 2 /\ s[1] = "1" /\ s[2] \in {"0", "1", "2"}
        /\ s[h + 1] = ":"
        /\ s[h + 2] \in {"0", "1", "2", "3", "4", "5"}
        /\ s[h + 3] \in Digits
        /\ g = 1 => IsSpace(s[h + 4])
        /\ s[h + 3 + g + 1] \in {"A", "a", "P", "p"}
        /\ s[h + 3 + g + 2] \in {"M", "m"}

\* this.time.trim().toUpperCase()
NormalizedTime(raw) == ToUpperCase(Trim(raw))

\* a hook that takes only new documents as modified
ModifiedOnlyWhenNew(doc, path) == doc.id = 0

\* this.isModified(path)
IsModified(doc, path) == path \in doc.mod

\* `required` of a String path: the empty string does not pass
RequiredOk(value) == value # <<>>

\* a store without the index
NoUniqueIndex(evs, id, slug) == TRUE

\* the unique index on slug: may document `id` (0: a new one) be written
\* with this slug
UniqueIndexAllows(evs, id, slug) ==
    \A i \in 1..Len(evs) : i # id => evs[i].slug # slug

NoDoc == [st |-> "none", id |-> 0, title |-> <<>>, slug |-> <<>>, time |-> <<>>,
          mod |-> {}, err |-> "none"]

DocSlots == 1..NumDocs
EventIds == 1..MaxEvents

\* titles and times handed to the Event model
SampleTitles == { <<"a">>, <<"A", "!">>, <<"b", " ">> }
SampleTimes ==
    { <<"9",":","0","0","a","m">>, <<"1","0",":","3","0"," ","P","M">>,
      <<"2","5",":","0","0">> }
\* an update leaves this field alone
Keep == <<"keep">>

\* requests take the lowest free document slot
LowestFree(slots, d) == slots[d].st = "none" /\ \A x \in DocSlots : x < d => slots[x].st # "none"

\* new Event({ title, time, ... })
NewEventDoc(rawTitle, rawTime) ==
    [st |-> "editing", id |-> 0, title |-> TitleSetter(rawTitle), slug |-> <<>>,
     time |-> rawTime, mod |-> {"title", "time"}, err |-> "none"]

\* Event.findById(id): the stored event as a document
LoadedDoc(evs, id) ==
    [st |-> "editing", id |-> id, title |-> evs[id].title, slug |-> evs[id].slug,
     time |-> evs[id].time, mod |-> {}, err |-> "none"]

\* doc.title = raw
WithTitle(doc, raw) ==
    IF raw = Keep \/ TitleSetter(raw) = doc.title THEN doc
    ELSE [doc EXCEPT !.title = TitleSetter(raw), !.mod = @ \cup {"title"}]

\* doc.time = raw
WithTime(doc, raw) ==
    IF raw = Keep \/ raw = doc.time THEN doc
    ELSE [doc EXCEPT !.time = raw, !.mod = @ \cup {"time"}]

\* the document after the slug branch of the hook
HookSlug(doc) ==
    IF IsModified(doc, "title")
    THEN LET s == SlugSetter(DeriveSlug(doc.title))
         IN  [doc EXCEPT !.slug = s,
                         !.mod = IF s # doc.slug THEN @ \cup {"slug"} ELSE @]
    ELSE doc

\* the time branch of the hook throws
HookTimeThrows(doc) == IsModified(doc, "time") /\ ~TimeRegexTest(Trim(doc.time))

\* the document after the time branch of the hook
HookTime(doc) ==
    IF IsModified(doc, "time") THEN [doc EXCEPT !.time = NormalizedTime(doc.time)] ELSE doc

\* what a request keeps of a document whose save threw: the error and the
\* title and slug it was saving
Rejected(doc, err) ==
    [NoDoc EXCEPT !.st = "failed", !.title = doc.title, !.slug = doc.slug, !.err = err]

\* doc.save() up to the write: schema validation, then the pre-save hook;
\* the write carries the document as the hook left it
PreSave(doc) ==
    IF ~RequiredOk(doc.title) \/ ~RequiredOk(doc.time)
    THEN Rejected(doc, "validation")
    ELSE IF HookTimeThrows(HookSlug(doc))
    THEN Rejected(HookSlug(doc), "Invalid time format")
    ELSE [HookTime(HookSlug(doc)) EXCEPT !.st = "hooked", !.mod = {}]

\* a request creates an event: new Event(...).save() up to the write
CreateEvent(d, rawTitle, rawTime) ==
    /\ LowestFree(docs, d)
    /\ Len(events) + Cardinality({x \in DocSlots : docs[x].st = "hooked" /\ docs[x].id = 0})
          < MaxEvents
    /\ docs' = [docs EXCEPT ![d] = PreSave(NewEventDoc(rawTitle, rawTime))]
    /\ UNCHANGED <<events, bookings, bdocs, connVars, timeVars, slugVars>>

\* a request edits a stored event: load it, assign the fields, save() up to
\* the write; one request edits an event at a time
UpdateEvent(d, id, rawTitle, rawTime) ==
    /\ LowestFree(docs, d)
    /\ id \in 1..Len(events)
    /\ \A x \in DocSlots : docs[x].st = "hooked" => docs[x].id # id
    /\ LET doc == WithTime(WithTitle(LoadedDoc(events, id), rawTitle), rawTime)
       IN  /\ doc.mod # {}
           /\ docs' = [docs EXCEPT ![d] = PreSave(doc)]
    /\ UNCHANGED <<events, bookings, bdocs, connVars, timeVars, slugVars>>

Stored(doc) == [title |-> doc.title, slug |-> doc.slug, time |-> doc.time]

\* doc.save(), the write: it reaches the store, which applies the unique
\* index on slug
CommitEvent(d) ==
    /\ docs[d].st = "hooked"
    /\ IF UniqueIndexAllows(events, docs[d].id, docs[d].slug)
       THEN /\ events' = IF docs[d].id = 0
                         THEN Append(events, Stored(docs[d]))
                         ELSE [events EXCEPT ![docs[d].id] = Stored(docs[d])]
            /\ docs' = [docs EXCEPT ![d] = NoDoc]
       ELSE /\ events' = events
            /\ docs' = [docs EXCEPT ![d] = Rejected(docs[d], "conflict")]
    /\ UNCHANGED <<bookings, bdocs, connVars, timeVars, slugVars>>

\* the request whose save failed reports the error and drops its document
DiscardEvent(d) ==
    /\ docs[d].st = "failed"
    /\ docs' = [docs EXCEPT ![d] = NoDoc]
    /\ UNCHANGED <<events, bookings, bdocs, connVars, timeVars, slugVars>>

\* ----------------------------------------------- Booking schema and hook
\* /^[^\s@]+@[^\s@]+\.[^\s@]+$/
EmailRegexTest(s) ==
    \E i, j \in 1..Len(s) :
        /\ 1 < i /\ i + 1 < j /\ j < Len(s)
        /\ s[i] = "@"
        /\ s[j] = "."
        /\ \A k \in 1..Len(s) : k # i => ~IsSpace(s[k]) /\ s[k] # "@"

\* schema setters: email { lowercase, trim }
EmailSetter(raw) == Trim(ToLowerCase(raw))

\* a hook whose lookup always finds an event
AlwaysFindsEvent(evs, id) == TRUE

\* Event.findById(this.eventId)
EventExists(evs, id) == id \in 1..Len(evs)

\* this.isNew || this.isModified("eventId")
ChecksEvent(bdoc) == bdoc.isNew \/ "eventId" \in bdoc.mod

NoBooking == [st |-> "none", eventId |-> 0, email |-> <<>>, isNew |-> FALSE,
              mod |-> {}, err |-> "none"]

SampleEmails ==
    { <<" ", "U", "@", "e", ".", "c", " ">>, <<"u", "@", "e">> }

\* new Booking({ eventId, email })
NewBookingDoc(eventId, rawEmail) ==
    [st |-> "new", eventId |-> eventId, email |-> EmailSetter(rawEmail),
     isNew |-> TRUE, mod |-> {"eventId", "email"}, err |-> "none"]

\* what a request keeps of a booking whose save threw: the error, which
\* names the event when the hook threw it
RejectedBooking(bdoc, err) ==
    [NoBooking EXCEPT !.st = "failed", !.err = err,
                      !.eventId = IF err = "validation" THEN 0 ELSE bdoc.eventId]

\* booking.save() up to the write: schema validation, then the pre-save hook
PreSaveBooking(evs, bdoc) ==
    IF ~RequiredOk(bdoc.email) \/ ~EmailRegexTest(bdoc.email)
    THEN RejectedBooking(bdoc, "validation")
    ELSE IF ChecksEvent(bdoc) /\ ~EventExists(evs, bdoc.eventId)
    THEN RejectedBooking(bdoc, "Failed to validate event")
    ELSE [bdoc EXCEPT !.st = "checked", !.mod = {}]

\* a request books a seat: new Booking(...).save() up to the write
CreateBooking(b, eventId, rawEmail) ==
    /\ LowestFree(bdocs, b)
    /\ Len(bookings) + Cardinality({x \in DocSlots : bdocs[x].st = "checked"}) < MaxBookings
    /\ bdocs' = [bdocs EXCEPT ![b] = PreSaveBooking(events, NewBookingDoc(eventId, rawEmail))]
    /\ UNCHANGED <<events, bookings, docs, connVars, timeVars, slugVars>>

\* booking.save(), the write: the insert reaches the store
CommitBooking(b) ==
    /\ bdocs[b].st = "checked"
    /\ bookings' = Append(bookings, [eventId |-> bdocs[b].eventId, email |-> bdocs[b].email])
    /\ bdocs' = [bdocs EXCEPT ![b] = NoBooking]
    /\ UNCHANGED <<events, docs, connVars, timeVars, slugVars>>

\* the request whose save failed reports the error and drops its document
DiscardBooking(b) ==
    /\ bdocs[b].st = "failed"
    /\ bdocs' = [bdocs EXCEPT ![b] = NoBooking]
    /\ UNCHANGED <<events, bookings, docs, connVars, timeVars, slugVars>>

\* ------------------------------------ the time branch of the hook, alone
TimeLead == {<<>>, <<" ">>}
TimeHours == {<<"9">>, <<"0","9">>, <<"1","2">>, <<"1","3">>, <<"0">>, <<"2","5">>, <<"1">>}
TimeMinutes == {<<":","0","0">>, <<":","5","9">>, <<":","6","0">>, <<"0","0">>}
TimeGaps == {<<>>, <<" ">>, <<" ", " ">>}
TimeMeridiems == {<<"a","m">>, <<"A","M">>, <<"p","M">>, <<"x","m">>, <<>>}
TimeTrail == {<<>>, <<" ">>}

TimeInputs ==
    { l \o h \o m \o g \o x \o t :
        l \in TimeLead, h \in TimeHours, m \in TimeMinutes, g \in TimeGaps,
        x \in TimeMeridiems, t \in TimeTrail }

\* a document whose time was just set to raw goes through the hook
ApplyTimeHook ==
    /\ tState = "input"
    /\ LET doc == [NoDoc EXCEPT !.time = tIn, !.mod = {"time"}]
       IN  IF HookTimeThrows(doc)
           THEN /\ tState' = "rejected"
                /\ tOut' = tOut
           ELSE /\ tState' = "stored"
                /\ tOut' = HookTime(doc).time
    /\ tIn' = tIn
    /\ UNCHANGED <<connVars, storeVars, slugVars>>

\* ------------------------- the slug derivation and GET's checks, alone
\* a letter of each case, a digit, whitespace, a hyphen, the underscore
\* that \\w keeps, and a character the hook removes
TitleChars == {"a", "B", "7", " ", "-", "_", "!"}
TitleInputs == UNION { [1..n -> TitleChars] : n \in 0..MaxTitleLen }

\* nothing computed yet
Unset == <<"unset">>
\* the creation was refused by validation
Refused == <<"refused">>
\* no GET was made yet
NotAsked == [status |-> "unset", message |-> "unset"]
\* the time of the event created with sTitle
SlugTime == <<"9",":","0","0","a","m">>

\* GET's checks of the slug parameter, before it touches the store:
\* NoResponse when they pass
SlugChecks(slug) ==
    IF slug = <<>> THEN SlugRequired
    ELSE IF ~SlugPatternTest(slug) THEN InvalidSlugFormat
    ELSE NoResponse

\* the slug expression of the hook, applied to the raw title
DeriveFromTitle ==
    /\ sSlug = Unset
    /\ sSlug' = DeriveSlug(sTitle)
    /\ UNCHANGED <<sTitle, sAgain, sStored, sFetch, connVars, storeVars, timeVars>>

\* the same expression, applied to its own result
DeriveFromSlug ==
    /\ sSlug # Unset
    /\ sAgain = Unset
    /\ sAgain' = DeriveSlug(sSlug)
    /\ UNCHANGED <<sTitle, sSlug, sStored, sFetch, connVars, storeVars, timeVars>>

\* new Event({ title: sTitle, ... }).save() into an empty store: the slug
\* the write carries
StoreCreated ==
    /\ sStored = Unset
    /\ LET doc == PreSave(NewEventDoc(sTitle, SlugTime))
       IN  sStored' = IF doc.st = "hooked" THEN doc.slug ELSE Refused
    /\ UNCHANGED <<sTitle, sSlug, sAgain, sFetch, connVars, storeVars, timeVars>>

\* GET /api/events/[slug] with the stored slug, up to its slug checks
FetchCreated ==
    /\ sStored # Unset
    /\ sStored # Refused
    /\ sFetch = NotAsked
    /\ sFetch' = SlugChecks(sStored)
    /\ UNCHANGED <<sTitle, sSlug, sAgain, sStored, connVars, storeVars, timeVars>>

\* ------------------------------------------------------ specifications
\* an event saved earlier, present in the store when the process starts
SeedEvents == << [title |-> <<"a">>, slug |-> <<"a">>, time |-> <<"9",":","0","0","A","M">>] >>

ConnInit ==
    /\ conn = NoConn
    /\ promise = 0
    /\ attempts = 0
    /\ outcome = [k \in Attempts |-> Pending]
    /\ pstate = [k \in Attempts |-> Pending]
    /\ reactions = [k \in Attempts |-> <<>>]
    /\ queue = <<>>
    /\ pc = [c \in Callers |-> "idle"]
    /\ req = [c \in Callers |-> NoRequest]
    /\ joined = [c \in Callers |-> 0]
    /\ called = [c \in Callers |-> FALSE]
    /\ callSeq = [c \in Callers |-> 0]
    /\ nCalls = 0
    /\ result = [c \in Callers |-> NoResult]
    /\ errmsg = [c \in Callers |-> <<>>]
    /\ response = [c \in Callers |-> NoResponse]
    /\ lookups = [c \in Callers |-> 0]

StoreIdle ==
    /\ bookings = <<>>
    /\ docs = [d \in DocSlots |-> NoDoc]
    /\ bdocs = [d \in DocSlots |-> NoBooking]

TimeIdle ==
    /\ tIn = <<>>
    /\ tOut = <<>>
    /\ tState = "stored"

SlugIdle ==
    /\ sTitle = <<>>
    /\ sSlug = <<>>
    /\ sAgain = <<>>
    /\ sStored = Refused
    /\ sFetch = NotAsked

Init ==
    /\ ConnInit
    /\ events = SeedEvents
    /\ StoreIdle
    /\ TimeIdle
    /\ SlugIdle

StoreInit ==
    /\ ConnInit
    /\ events = <<>>
    /\ StoreIdle
    /\ TimeIdle
    /\ SlugIdle

TimeInit ==
    /\ ConnInit
    /\ events = <<>>
    /\ StoreIdle
    /\ tIn \in TimeInputs
    /\ tOut = <<>>
    /\ tState = "input"
    /\ SlugIdle

SlugInit ==
    /\ ConnInit
    /\ events = <<>>
    /\ StoreIdle
    /\ TimeIdle
    /\ sTitle \in TitleInputs
    /\ sSlug = Unset
    /\ sAgain = Unset
    /\ sStored = Unset
    /\ sFetch = NotAsked

Next ==
    \/ \E c \in Callers : ScheduleConnect(c)
    \/ \E c \in Callers : \E s \in RequestSlugs : ScheduleGet(c, s)
    \/ RunConnect
    \/ RunGet
    \/ \E k \in Attempts : ConnectSucceeds(k)
    \/ \E k \in Attempts : ConnectFails(k)
    \/ RunThen
    \/ RunResume
    \/ RunGetCont

Spec == Init /\ [][Next]_vars

StoreNext ==
    \/ \E d \in DocSlots : \E t \in SampleTitles : \E m \in SampleTimes : CreateEvent(d, t, m)
    \/ \E d \in DocSlots : \E id \in EventIds :
          \E t \in SampleTitles \cup {Keep} : \E m \in SampleTimes \cup {Keep} :
             UpdateEvent(d, id, t, m)
    \/ \E d \in DocSlots : CommitEvent(d)
    \/ \E d \in DocSlots : DiscardEvent(d)

SpecStore == StoreInit /\ [][StoreNext]_vars

\* the events the booking requests race with
BookedTitles == { <<"a">>, <<"b", " ">> }
BookedTime == <<"9",":","0","0","a","m">>

BookingNext ==
    \/ \E d \in DocSlots : \E t \in BookedTitles : CreateEvent(d, t, BookedTime)
    \/ \E d \in DocSlots : CommitEvent(d)
    \/ \E d \in DocSlots : DiscardEvent(d)
    \/ \E b \in DocSlots : \E id \in EventIds : \E e \in SampleEmails : CreateBooking(b, id, e)
    \/ \E b \in DocSlots : CommitBooking(b)
    \/ \E b \in DocSlots : DiscardBooking(b)

SpecBooking == StoreInit /\ [][BookingNext]_vars

TimeNext == ApplyTimeHook

SpecTime == TimeInit /\ [][TimeNext]_vars

SlugNext ==
    \/ DeriveFromTitle
    \/ DeriveFromSlug
    \/ StoreCreated
    \/ FetchCreated

SpecSlug == SlugInit /\ [][SlugNext]_vars

\* ================================================================ claims
\* the attempts whose mongoose.connect() has not settled
Outstanding == {k \in 1..attempts : outcome[k] = Pending}

\* c has got connectDB()'s answer
Answered(c) == result[c] # NoResult

\* C1: while the promise of the first connect attempt is pending, every
\* connectDB() call joins that attempt and no second mongoose.connect() is
\* made; all callers that awaited the first attempt observe its outcome, the
\* handle when it succeeded and its error when it failed.
C1_OneAttemptSharedOutcome ==
    /\ (attempts >= 1 /\ pstate[1] = Pending) =>
          /\ attempts = 1
          /\ \A c \in Callers : called[c] => joined[c] = 1
    /\ \A c \in Callers :
          (joined[c] = 1 /\ Answered(c)) =>
              /\ pstate[1] # Pending
              /\ result[c] = (IF pstate[1] = Fulfilled THEN Mongoose ELSE Failed)
              /\ errmsg[c] = (IF pstate[1] = Fulfilled THEN <<>> ELSE pstate[1])

\* three callers overlapped the first attempt and all got the handle from it
C1_Witness ==
    /\ attempts = 1
    /\ Cardinality({c \in Callers : joined[c] = 1 /\ result[c] = Mongoose}) >= 3

\* C2: at most one connect attempt is outstanding at any time.
C2_AtMostOneOutstanding == Cardinality(Outstanding) <= 1

\* C3: a failed attempt's error reaches every caller that awaited it; once a
\* later call has started a new attempt and received its handle, every call
\* made after that call receives the handle too.
C3_RetryServesAllLaterCalls ==
    /\ \A c \in Callers :
          (Answered(c) /\ joined[c] # 0 /\ pstate[joined[c]] \in ConnectErrors) =>
              result[c] = Failed
    /\ \A c, d \in Callers :
          ( /\ joined[c] >= 2
            /\ result[c] = Mongoose
            /\ callSeq[d] > callSeq[c]
            /\ Answered(d) ) => result[d] = Mongoose

\* C4: once cached.conn holds a handle it keeps that handle, no further
\* mongoose.connect() is made, and every connectDB() call made from then on
\* returns the cached handle without awaiting any attempt.
C4_ConnectedIsTerminal ==
    [][ conn # NoConn =>
          /\ conn' = conn
          /\ attempts' = attempts
          /\ \A c \in Callers :
                (~called[c] /\ called'[c]) => (result'[c] = conn /\ joined'[c] = 0)
      ]_vars

\* a call made after the handle was cached was served from the cache
C4_Witness ==
    \E c \in Callers : conn = Mongoose /\ called[c] /\ joined[c] = 0 /\ result[c] = Mongoose

\* the slug grammar ^[a-z0-9]+(?:-[a-z0-9]+)*$ read as: hyphen-separated,
\* non-empty runs of [a-z0-9]
RECURSIVE WellFormedSlug(_, _)
WellFormedSlug(s, runLen) ==
    IF s = <<>> THEN runLen > 0
    ELSE IF Head(s) = "-" THEN runLen > 0 /\ WellFormedSlug(Tail(s), 0)
    ELSE Head(s) \in Lower \cup Digits /\ WellFormedSlug(Tail(s), runLen + 1)

\* C8: a GET whose slug does not match ^[a-z0-9]+(?:-[a-z0-9]+)*$ never calls
\* connectDB() and never queries the store, and it is answered with status 400
\* (the format message whenever the slug is not empty).
C8_BadSlugNoStoreAccess ==
    \A c \in Callers :
        (req[c].kind = "GET" /\ ~WellFormedSlug(req[c].slug, 0)) =>
            /\ ~called[c]
            /\ joined[c] = 0
            /\ lookups[c] = 0
            /\ pc[c] = "done" =>
                  /\ response[c].status = "400"
                  /\ req[c].slug # <<>> => response[c] = InvalidSlugFormat

\* "Invalid Slug!" was rejected while connection attempts of others went on
C8_Witness ==
    \E c \in Callers :
        /\ req[c] = GetRequest(<<"I","n","v","a","l","i","d"," ","S","l","u","g","!">>)
        /\ response[c] = InvalidSlugFormat
        /\ attempts >= 1

\* C9: a GET whose connectDB() call failed answers service-unavailable (503).
C9_ConnectFailureIs503 ==
    \A c \in Callers :
        (req[c].kind = "GET" /\ pc[c] = "done" /\ result[c] = Failed) =>
            response[c].status = "503"

\* C5: every booking in the store, and every booking whose save has passed
\* the hook, names an event that is in the store; a request whose booking
\* was refused for its event never wrote to the store.
C5_BookingsReferenceStoredEvents ==
    /\ \A i \in 1..Len(bookings) : bookings[i].eventId \in 1..Len(events)
    /\ \A b \in DocSlots :
          bdocs[b].st = "checked" => bdocs[b].eventId \in 1..Len(events)

\* a booking naming an event that is not stored was refused, while a booking
\* of a stored event went through
C5_Witness ==
    /\ \E b \in DocSlots :
          /\ bdocs[b].err = "Failed to validate event"
          /\ bdocs[b].eventId \notin 1..Len(events)
    /\ Len(bookings) >= 1

\* document d's write was refused in this step
RefusedWrite(d) == docs[d].st = "hooked" /\ docs'[d].st = "failed"

\* another stored event already carries the slug document d is written with
SlugTaken(d) ==
    \E i \in 1..Len(events) : i # docs[d].id /\ events[i].slug = docs[d].slug

\* C6: no two stored events carry the same slug; a write whose slug another
\* event already carries is refused with a conflict error and changes
\* nothing in the store, and no other write is refused.
C6_SlugsUnique ==
    /\ [](\A i, j \in 1..Len(events) : i # j => events[i].slug # events[j].slug)
    /\ [][ \A d \in DocSlots :
              /\ (docs[d].st = "hooked" /\ docs'[d] # docs[d] /\ SlugTaken(d)) =>
                    (docs'[d].err = "conflict" /\ events' = events)
              /\ RefusedWrite(d) => SlugTaken(d)
         ]_vars

\* an event with a different title but the same derived slug was refused
C6_Witness ==
    \E d \in DocSlots : \E i \in 1..Len(events) :
        /\ docs[d].err = "conflict"
        /\ events[i].slug = docs[d].slug
        /\ events[i].title # docs[d].title
        /\ DeriveSlug(events[i].title) = DeriveSlug(docs[d].title)

Canonical12h(raw) ==
    LET s == Trim(raw)
        hm == SelectSeq(s, LAMBDA ch : ch \in Digits \cup {":"})
    IN  hm \o <<" ">> \o ToUpperCase(SubSeq(s, Len(s) - 1, Len(s)))

\* C10: the time branch accepts exactly the inputs whose trimmed form matches
\* the pattern; what it stores for an accepted input is the HH:MM AM/PM form
\* ("9:00am" gives "9:00 AM"); for a refused input nothing is written.
C10_TimeStoredAsHHMMSpaceMeridiem ==
    /\ tState = "stored" => (TimeRegexTest(Trim(tIn)) /\ tOut = Canonical12h(tIn))
    /\ tState = "rejected" => (~TimeRegexTest(Trim(tIn)) /\ tOut = <<>>)

\* C11: deriving a slug from a derived slug gives that slug again:
\* deriveSlug(deriveSlug(T)) = deriveSlug(T) for every title T
C11_DeriveSlugIdempotent == sAgain # Unset => sAgain = sSlug

\* a title with upper case, a removed character and a hyphen run was
\* derived twice
C11_Witness ==
    /\ sTitle = <<"B", " ", "-">>
    /\ sSlug = <<"b">>
    /\ sAgain = <<"b">>

\* C12: the slug stored for every created event passes GET's slug checks
\* (it is never answered 400), so the event can be fetched by it
C12_StoredSlugPassesFormat == sFetch # NotAsked => sFetch = NoResponse

====
